---- MODULE Spec2Model ----
(***************************************************************************)
(* A model of cuber: raster alignment onto a common pixel grid.            *)
(*                                                                         *)
(*   transform.py  TransformParams (to_rowcol, slice),                     *)
(*                 create_TransformParams                                  *)
(*   bbox.py       Bbox, create_Bbox                                       *)
(*   date_glob.py  DateGlob                                                *)
(*   cuber.py      align_src, create_TransformParams (older variant), cube *)
(*   tile.py       TileCube, create_TileCube                               *)
(*                                                                         *)
(* Geographic coordinates and pixel sizes are Python floats in the source; *)
(* here they are integers of one fixed unit, so that (lng - ulX) / xDist   *)
(* is an exact rational and int() is its truncation toward zero.           *)
(* Python indexes from 0, TLA+ from 1: gt[2] in the source is gt[3] here.  *)
(***************************************************************************)
EXTENDS Integers, Sequences, FiniteSets, TLC

VARIABLES
    tp,         \* the TransformParams object in use
    bbox,       \* the Bbox object in use
    rowcol,     \* the last call of TransformParams.__to_rowcol and its result
    arr_slice,  \* the last call of TransformParams.slice and its result
    glob,       \* the DateGlob object
    align,      \* the frame of a call of align_src
    params,     \* the frame of a call of create_TransformParams
    tile,       \* the frame of a call of create_TileCube, and the array store
    cubed       \* the frame of a call of cube

vars == <<tp, bbox, rowcol, arr_slice, glob, align, params, tile, cubed>>

----------------------------------------------------------------------------
(* Bounds of the model.                                                    *)

\* largest |pixel width| and |pixel height| of a transform handed to to_rowcol
MaxPix == 3
\* the upper-left origin (c, f) of such a transform lies in -MaxOrigin..MaxOrigin
MaxOrigin == 1
\* a point handed to to_rowcol has lat, lng in -MaxCoord..MaxCoord
MaxCoord == 6
\* largest pixel size of a grid that is sliced by a bounding box
MaxGridPix == 2
\* the origin of such a grid lies in 0..MaxGridOrigin
MaxGridOrigin == 1
\* largest width and height, in pixels, of a grid
MaxDim == 2
\* a bounding box has left and right in -1..MaxBoxCoord and bottom and top in
\* -MaxBoxCoord..1: such a grid extends right of and below its origin
MaxBoxCoord == 2
\* longest date template, in characters
MaxLen == 5
\* largest number of bands of a raster
MaxBands == 2
\* the number of source rasters of a cube
NumSrcs == 2

----------------------------------------------------------------------------
(* Python values: None, an int, a float (v halves, so v = 5 is 2.5).       *)

NoneVal == [t |-> "None", v |-> 0]
IntVal(n) == [t |-> "int", v |-> n]
FloatVal(h) == [t |-> "float", v |-> h]

BoolVal(b) == [t |-> "bool", v |-> b]

\* x != y
PyNotEqual(x, y) == x.t # y.t \/ (x.t = y.t /\ x.v # y.v)

\* bool(x) of None, an int or a float
Truthy(x) == x.t # "None" /\ x.v # 0

\* all(xs) of a tuple
all(xs) == \A i \in 1..Len(xs) : Truthy(xs[i])

\* isinstance(x, int)
IsInt(x) == x.t = "int"

Abs(n) == IF n < 0 THEN -n ELSE n

\* floor(n / d) for d /= 0
FloorDiv(n, d) == IF d > 0 THEN n \div d ELSE (-n) \div (-d)

\* int(n / d): Python's true division, then truncation toward zero
IntOfQuotient(n, d) ==
    LET q == FloorDiv(n, d)
    IN  IF q < 0 /\ q * d # n THEN q + 1 ELSE q

----------------------------------------------------------------------------
(* transform.py: TransformParams                                           *)

TransformParams(transform, width, height, crs, bands) ==
    [transform |-> transform, width |-> width, height |-> height,
     crs |-> crs, bands |-> bands]

\* a zero-rotation affine transform (a, b, c, d, e, f)
Affine(a, c, e, f) == <<a, 0, c, 0, e, f>>

\* bands = list(range(1, count + 1))
BandList(count) == [i \in 1..count |-> i]

\* a mutant of to_rowcol: math.floor in place of int
to_rowcol_floor(self, lat, lng) ==
    LET gt == self.transform
    IN  <<Abs(FloorDiv(gt[6] - lat, gt[5])), Abs(FloorDiv(lng - gt[3], gt[1]))>>

\* a mutant of to_rowcol: the upper-left origin is not subtracted
to_rowcol_no_origin(self, lat, lng) ==
    LET gt == self.transform
    IN  <<Abs(IntOfQuotient(lat, gt[5])), Abs(IntOfQuotient(lng, gt[1]))>>

\* TransformParams.__to_rowcol
to_rowcol(self, lat, lng) ==
    LET gt == self.transform
        ulX == gt[3]
        ulY == gt[6]
        xDist == gt[1]
        yDist == gt[5]
        pixel == Abs(IntOfQuotient(lng - ulX, xDist))
        line == Abs(IntOfQuotient(ulY - lat, yDist))
    IN  <<line, pixel>>

\* a mutant of slice: each corner is passed as (lng, lat)
slice_swapped(self, ul, lr) ==
    <<to_rowcol(self, ul[2], ul[1]), to_rowcol(self, lr[2], lr[1])>>

\* TransformParams.slice
slice(self, ul, lr) ==
    <<to_rowcol(self, ul[1], ul[2]), to_rowcol(self, lr[1], lr[2])>>

\* transform.py: create_TransformParams(src, output_crs), where trans is what
\* calculate_default_transform returned: (transform, width, height)
create_TransformParams(src, output_crs, trans) ==
    IF IsInt(trans[3]) /\ IsInt(trans[2])
    THEN [pc |-> "returned", err |-> "",
          ret |-> TransformParams(trans[1], trans[2], trans[3], output_crs,
                                  BandList(src.count))]
    ELSE [pc |-> "raised", err |-> "AssertionError",
          ret |-> TransformParams(trans[1], NoneVal, NoneVal, "", <<>>)]

\* cuber.py: create_TransformParams(src, output_crs), the older variant
cuber_create_TransformParams(src, output_crs, trans) ==
    [pc |-> "returned", err |-> "",
     ret |-> TransformParams(trans[1], trans[2], trans[3], output_crs,
                             BandList(src.count))]

----------------------------------------------------------------------------
(* cuber.py: align_src                                                     *)

\* np.empty(shape): a dimension that is no int is a TypeError, a negative
\* one a ValueError
np_empty(shape) ==
    IF \E i \in 1..Len(shape) : ~IsInt(shape[i]) THEN "TypeError"
    ELSE IF \E i \in 1..Len(shape) : shape[i].v < 0 THEN "ValueError"
    ELSE ""

\* the assertion of align_src: all((height, width)) != None
align_assertion(transform_params) ==
    PyNotEqual(BoolVal(all(<<transform_params.height,
                             transform_params.width>>)), NoneVal)

\* align_src(src, transform_params), where reproject_ok says whether
\* rasterio's reproject succeeds on src. events are the calls made, in
\* order: np.empty when it allocated, reproject when it was invoked.
align_src(reproject_ok, transform_params) ==
    LET shape == <<IntVal(Len(transform_params.bands)),
                   transform_params.height, transform_params.width>>
    IN  IF ~align_assertion(transform_params)
        THEN [pc |-> "raised", err |-> "AssertionError", events |-> <<>>,
              ret |-> <<>>]
        ELSE IF np_empty(shape) # ""
        THEN [pc |-> "raised", err |-> np_empty(shape), events |-> <<>>,
              ret |-> <<>>]
        ELSE IF ~reproject_ok
        THEN [pc |-> "raised", err |-> "reproject",
              events |-> <<"np.empty", "reproject">>, ret |-> <<>>]
        ELSE [pc |-> "returned", err |-> "",
              events |-> <<"np.empty", "reproject">>, ret |-> shape]

----------------------------------------------------------------------------
(* bbox.py: Bbox                                                           *)

\* a mutant of __post_init__: the corners are built as (x, y)
post_init_xy(self) ==
    [self EXCEPT !.upper_left = <<self.left, self.top>>,
                 !.lower_right = <<self.right, self.bottom>>]

\* Bbox.__post_init__
post_init(self) ==
    [self EXCEPT !.upper_left = <<self.top, self.left>>,
                 !.lower_right = <<self.bottom, self.right>>]

\* Bbox(left, bottom, right, top, crs): the generated __init__, then
\* __post_init__
Bbox(left, bottom, right, top, crs) ==
    post_init([made |-> TRUE, left |-> left, bottom |-> bottom,
               right |-> right, top |-> top, crs |-> crs,
               upper_left |-> <<>>, lower_right |-> <<>>])

\* no Bbox has been constructed
NoBbox ==
    [made |-> FALSE, left |-> 0, bottom |-> 0, right |-> 0, top |-> 0,
     crs |-> "", upper_left |-> <<>>, lower_right |-> <<>>]

Min(S) == CHOOSE m \in S : \A n \in S : m <= n
Max(S) == CHOOSE m \in S : \A n \in S : m >= n

\* rasterio.features.bounds(geom): (left, bottom, right, top) of a geometry,
\* here the sequence of its vertices (x, y)
bounds(geom) ==
    LET xs == {geom[i][1] : i \in 1..Len(geom)}
        ys == {geom[i][2] : i \in 1..Len(geom)}
    IN  <<Min(xs), Min(ys), Max(xs), Max(ys)>>

\* create_Bbox(geojson_path, crs) on the parsed file: the Bbox, or the error
\* raised. A null geometry is geometry.null = TRUE.
create_Bbox(geojson, crs) ==
    IF Len(geojson.features) = 0
    THEN [ok |-> FALSE, err |-> "IndexError", ret |-> NoBbox]
    ELSE LET geom == geojson.features[1].geometry
         IN  IF geom.null
             THEN [ok |-> FALSE, err |-> "AssertionError", ret |-> NoBbox]
             ELSE LET b == bounds(geom.coordinates)
                  IN  [ok |-> TRUE, err |-> "",
                       ret |-> Bbox(b[1], b[2], b[3], b[4], crs)]

----------------------------------------------------------------------------
(* date_glob.py: DateGlob. A string is the sequence of its characters.     *)

\* "[0-9]"
DigitClass == <<"[", "0", "-", "9", "]">>

\* s * n
RECURSIVE Repeat(_, _)
Repeat(s, n) == IF n <= 0 THEN <<>> ELSE s \o Repeat(s, n - 1)

\* s.startswith(old)
StartsWith(s, old) ==
    Len(s) >= Len(old) /\ SubSeq(s, 1, Len(old)) = old

\* old in s
Contains(s, old) ==
    \E i \in 1..(Len(s) - Len(old) + 1) : SubSeq(s, i, i + Len(old) - 1) = old

\* s.replace(old, new) for a non-empty old: the occurrences of old, found
\* left to right without overlap, each replaced by new
RECURSIVE Replace(_, _, _)
Replace(s, old, new) ==
    IF Len(s) < Len(old) THEN s
    ELSE IF StartsWith(s, old)
         THEN new \o Replace(SubSeq(s, Len(old) + 1, Len(s)), old, new)
         ELSE <<Head(s)>> \o Replace(Tail(s), old, new)

\* DateGlob.__replace_year
replace_year(self) ==
    [self EXCEPT !.pattern = Replace(self.pattern, <<"%", "Y">>, self.Y)]

\* DateGlob.__replace_month
replace_month(self) ==
    [self EXCEPT !.pattern = Replace(self.pattern, <<"%", "m">>, self.m)]

\* DateGlob.__replace_day
replace_day(self) ==
    [self EXCEPT !.pattern = Replace(self.pattern, <<"%", "d">>, self.d)]

\* a mutant of __replace_julian: the day of year takes the day's two digits
replace_julian_as_day(self) ==
    [self EXCEPT !.pattern = Replace(self.pattern, <<"%", "j">>, self.d)]

\* DateGlob.__replace_julian
replace_julian(self) ==
    [self EXCEPT !.pattern = Replace(self.pattern, <<"%", "j">>, self.j)]

\* DateGlob.__parse_date: the object after the call; the call returns its
\* pattern
parse_date(self) ==
    LET s0 == [self EXCEPT !.pattern = self.datestr]
        s1 == IF Contains(self.datestr, <<"%", "Y">>)
              THEN replace_year(s0) ELSE s0
        s2 == IF Contains(s1.pattern, <<"%", "m">>)
              THEN replace_month(s1) ELSE s1
        s3 == IF Contains(s2.pattern, <<"%", "d">>)
              THEN replace_day(s2) ELSE s2
        s4 == IF Contains(s3.pattern, <<"%", "j">>)
              THEN replace_julian(s3) ELSE s3
    IN  s4

\* DateGlob(datestr): __init__. pattern is the public attribute, the pattern
\* __parse_date leaves in the private one
DateGlob(datestr) ==
    parse_date([made |-> TRUE, datestr |-> datestr,
                Y |-> Repeat(DigitClass, 4), m |-> Repeat(DigitClass, 2),
                d |-> Repeat(DigitClass, 2), j |-> Repeat(DigitClass, 3),
                pattern |-> <<>>])

----------------------------------------------------------------------------
(* tile.py: ArrayLike, TileCube, create_TileCube                           *)

\* ArrayLike(shape): __post_init__ sets ndim
ArrayLike(shape) == [shape |-> shape, ndim |-> Len(shape)]

TileCube(uri, attr, width, height, bands, dates, crs, box) ==
    [uri |-> uri, attr |-> attr, width |-> width, height |-> height,
     bands |-> bands, dates |-> dates, crs |-> crs, bbox |-> box]

\* a mutant of shape: (bands, width, height, dates)
shape_width_first(self) ==
    <<Len(self.bands), self.width, self.height, Len(self.dates)>>

\* TileCube.shape
shape(self) ==
    <<Len(self.bands), self.height, self.width, Len(self.dates)>>

\* the array store before anything is allocated
EmptyStore == [arrays |-> <<>>, meta |-> <<>>]

\* a mutant of create: the metadata is written before the array is allocated
TileCube_create_meta_first(self, overwrite, store_fault) ==
    IF overwrite
    THEN [err |-> "TypeError", events |-> <<>>, store |-> EmptyStore]
    ELSE [err |-> "",
          events |-> <<"meta.crs", "meta.upper_left", "meta.lower_right",
                       "empty_like">>,
          store |-> [arrays |-> <<ArrayLike(shape(self)).shape>>,
                     meta |-> <<[key |-> "crs", val |-> self.crs],
                                [key |-> "upper_left",
                                 val |-> self.bbox.upper_left],
                                [key |-> "lower_right",
                                 val |-> self.bbox.lower_right]>>]]

\* TileCube.create(overwrite=...): the error raised ("" for none), the calls
\* made on the array store, in order, and the store they leave. store_fault
\* is what the store does: "" (it works), "empty_like" (tiledb.empty_like
\* raises, as for an array that exists) or "open" (tiledb.open raises).
\* raise NotImplemented raises a TypeError: NotImplemented is no exception.
TileCube_create(self, overwrite, store_fault) ==
    LET arraylike == ArrayLike(shape(self))
        allocated == [arrays |-> <<arraylike.shape>>, meta |-> <<>>]
    IN  IF overwrite
        THEN [err |-> "TypeError", events |-> <<>>, store |-> EmptyStore]
        ELSE IF store_fault = "empty_like"
        THEN [err |-> "TileDBError", events |-> <<>>, store |-> EmptyStore]
        ELSE IF store_fault = "open"
        THEN [err |-> "TileDBError", events |-> <<"empty_like">>,
              store |-> allocated]
        ELSE [err |-> "",
              events |-> <<"empty_like", "meta.crs", "meta.upper_left",
                           "meta.lower_right">>,
              store |-> [allocated EXCEPT !.meta =
                            <<[key |-> "crs", val |-> self.crs],
                              [key |-> "upper_left",
                               val |-> self.bbox.upper_left],
                              [key |-> "lower_right",
                               val |-> self.bbox.lower_right]>>]]

\* no TileCube was returned
NoTileCube == TileCube("", "", 0, 0, <<>>, <<>>, "", NoBbox)

\* create_TileCube(uri, attr, bands, dates, bbox, transparams, create=...,
\* overwrite=...), where parent_exists is uri.parent.exists(): the frame the
\* call ends in
create_TileCube(parent_exists, attr, bands, dates, box, transparams, create, overwrite, store_fault) ==
    LET sl == slice(transparams, box.upper_left, box.lower_right)
        height == Abs(sl[1][1] - sl[2][1])
        width == Abs(sl[1][2] - sl[2][2])
        tilecube == TileCube("uri", attr, width, height, bands, dates,
                             transparams.crs, box)
        made == TileCube_create(tilecube, overwrite, store_fault)
    IN  IF ~parent_exists
        THEN [pc |-> "raised", err |-> "AssertionError", events |-> <<>>,
              store |-> EmptyStore, ret |-> NoTileCube]
        ELSE IF ~create
        THEN [pc |-> "returned", err |-> "",
              events |-> <<"parent_exists", "shape">>,
              store |-> EmptyStore, ret |-> tilecube]
        ELSE IF made.err # ""
        THEN [pc |-> "raised", err |-> made.err,
              events |-> <<"parent_exists", "shape">> \o made.events,
              store |-> made.store, ret |-> NoTileCube]
        ELSE [pc |-> "returned", err |-> "",
              events |-> <<"parent_exists", "shape">> \o made.events,
              store |-> made.store, ret |-> tilecube]

----------------------------------------------------------------------------
(* cuber.py: cube. An array is its shape.                                  *)

\* where Python's slicing puts the bound i of a slice of an axis of length n:
\* a negative bound counts from the end, and every bound is cut to 0..n
slice_bound(i, n) ==
    IF i < 0 THEN (IF i + n < 0 THEN 0 ELSE i + n)
    ELSE IF i > n THEN n ELSE i

\* len(range(n)[start:stop]): the length start:stop leaves of an axis of
\* length n
slice_len(start, stop, n) ==
    IF slice_bound(stop, n) > slice_bound(start, n)
    THEN slice_bound(stop, n) - slice_bound(start, n)
    ELSE 0

\* arr[:, sl[0][0] : sl[1][0], sl[0][1] : sl[1][1]] of an array of shape arr,
\* as align_src returns it: the shape of the slab
crop(arr, sl) ==
    <<arr[1].v, slice_len(sl[1][1], sl[2][1], arr[2].v),
      slice_len(sl[1][2], sl[2][2], arr[3].v)>>

\* the loop of cube from source i on: the frame the call ends in, outputs
\* being the slabs appended so far
RECURSIVE cube_loop(_, _, _, _, _)
cube_loop(srcs, i, trans, sl, outputs) ==
    IF i > Len(srcs)
    THEN [pc |-> "returned", err |-> "", trans |-> trans, arr_slice |-> sl,
          outputs |-> outputs]
    ELSE LET aligned == align_src(srcs[i].reproject_ok, trans)
         IN  IF aligned.pc = "raised"
             THEN [pc |-> "raised", err |-> aligned.err, trans |-> trans,
                   arr_slice |-> sl, outputs |-> outputs]
             ELSE cube_loop(srcs, i + 1, trans, sl,
                            Append(outputs, crop(aligned.ret, sl)))

\* cube(srcs, crs, bbox), where default_transform is what
\* calculate_default_transform returns for srcs[0] and a source is
\* [count, reproject_ok]: the frame the call ends in
cube(srcs, crs, box, default_transform) ==
    IF Len(srcs) = 0
    THEN [pc |-> "raised", err |-> "IndexError",
          trans |-> TransformParams(default_transform[1], NoneVal, NoneVal,
                                    "", <<>>),
          arr_slice |-> <<<<0, 0>>, <<0, 0>>>>, outputs |-> <<>>]
    ELSE LET trans == cuber_create_TransformParams(srcs[1], crs,
                                                   default_transform).ret
             sl == slice(trans, box.upper_left, box.lower_right)
         IN  cube_loop(srcs, 1, trans, sl, <<>>)

----------------------------------------------------------------------------
(* Values of the variables a specification does not use.                   *)

NoTp == TransformParams(Affine(1, 0, -1, 0), NoneVal, NoneVal, "", <<>>)
NoRowCol == [called |-> FALSE, lat |-> 0, lng |-> 0, ret |-> <<0, 0>>]
NoSlice == [called |-> FALSE, ret |-> <<<<0, 0>>, <<0, 0>>>>]
NoGlob == [made |-> FALSE, datestr |-> <<>>, pattern |-> <<>>]
NoAlign == [pc |-> "idle", err |-> "", events |-> <<>>, ret |-> <<>>]
NoParams == [pc |-> "idle", variant |-> "", err |-> ""]
NoCube ==
    [pc |-> "idle", err |-> "", trans |-> NoTp,
     arr_slice |-> <<<<0, 0>>, <<0, 0>>>>, outputs |-> <<>>]
NoTile ==
    [pc |-> "idle", err |-> "", events |-> <<>>, store |-> EmptyStore,
     ret |-> NoTileCube, srcs |-> 0, bands |-> <<>>, dates |-> <<>>,
     create |-> FALSE, overwrite |-> FALSE]

----------------------------------------------------------------------------
(* SpecRowCol: to_rowcol of any point under any zero-rotation transform.   *)

PixSizes == {p \in -MaxPix..MaxPix : p # 0}
Origins == -MaxOrigin..MaxOrigin
Coords == -MaxCoord..MaxCoord

InitRowCol ==
    /\ \E a \in PixSizes, c \in Origins, e \in PixSizes, f \in Origins :
         tp = TransformParams(Affine(a, c, e, f), IntVal(MaxDim),
                              IntVal(MaxDim), "EPSG:4326", BandList(1))
    /\ bbox = [obj |-> NoBbox, err |-> ""]
    /\ rowcol = NoRowCol
    /\ arr_slice = NoSlice
    /\ glob = NoGlob
    /\ align = NoAlign
    /\ params = NoParams
    /\ tile = NoTile
    /\ cubed = NoCube

\* a call tp.__to_rowcol(lat, lng)
ToRowCol ==
    /\ ~rowcol.called
    /\ \E lat \in Coords, lng \in Coords :
         rowcol' = [called |-> TRUE, lat |-> lat, lng |-> lng,
                    ret |-> to_rowcol(tp, lat, lng)]
    /\ UNCHANGED <<tp, bbox, arr_slice, glob, align, params, tile, cubed>>

NextRowCol == ToRowCol

SpecRowCol == InitRowCol /\ [][NextRowCol]_vars

\* the coefficients of the transform in use
gtA == tp.transform[1]
gtC == tp.transform[3]
gtE == tp.transform[5]
gtF == tp.transform[6]

\* C1: for every zero-rotation transform with a /= 0 and e /= 0 and every
\* point, to_rowcol returns col = floor(|(lon - c) / a|) and
\* row = floor(|(f - lat) / e|): abs(int(x)) equals floor(|x|), also for
\* points left of or above the origin.
C1_RowColIsFloorAbs ==
    rowcol.called =>
        /\ rowcol.ret[2] = Abs(rowcol.lng - gtC) \div Abs(gtA)
        /\ rowcol.ret[1] = Abs(gtF - rowcol.lat) \div Abs(gtE)

\* C1's case: a point left of the origin whose quotient is negative and
\* not whole
C1_Witness ==
    /\ rowcol.called
    /\ (rowcol.lng - gtC) * gtA < 0
    /\ (rowcol.lng - gtC) % Abs(gtA) # 0
    /\ (gtF - rowcol.lat) * gtE < 0
    /\ (gtF - rowcol.lat) % Abs(gtE) # 0

\* the point the transform maps (row, col) back to
BackX == gtC + rowcol.ret[2] * gtA
BackY == gtF + rowcol.ret[1] * gtE

\* C2 as stated: for every point, to_rowcol followed by the transform
\* recovers a point less than one pixel away in each axis.
C2_RoundTripEveryPoint ==
    rowcol.called =>
        /\ Abs(BackX - rowcol.lng) < Abs(gtA)
        /\ Abs(BackY - rowcol.lat) < Abs(gtE)

\* the point lies on the grid's side of the origin in both axes: its real
\* pixel coordinates (lng - c) / a and (lat - f) / e are not negative
OnGridSide ==
    /\ (rowcol.lng - gtC) * gtA >= 0
    /\ (rowcol.lat - gtF) * gtE >= 0

\* C2 amended: for every point on the grid's side of the origin, to_rowcol
\* followed by the transform recovers a point less than one pixel away in
\* each axis.
C2_RoundTripOnGridSide ==
    (rowcol.called /\ OnGridSide) =>
        /\ Abs(BackX - rowcol.lng) < Abs(gtA)
        /\ Abs(BackY - rowcol.lat) < Abs(gtE)

\* C2's case: a point strictly inside a pixel, away from the origin
C2_Witness ==
    /\ rowcol.called
    /\ OnGridSide
    /\ rowcol.ret[1] > 0
    /\ rowcol.ret[2] > 0
    /\ BackX # rowcol.lng
    /\ BackY # rowcol.lat

----------------------------------------------------------------------------
(* SpecSlice: a Bbox is constructed, from coordinates or from a geometry   *)
(* file, and a grid with positive pixel width and negative pixel height is *)
(* sliced by it.                                                           *)

GridPix == 1..MaxGridPix
GridOrigins == 0..MaxGridOrigin
Dims == 1..MaxDim
XCoords == -1..MaxBoxCoord
YCoords == -MaxBoxCoord..1

\* the parsed geometry files: no feature, a feature with a null geometry, a
\* feature whose geometry has the two vertices p and q
NoFeatures == [features |-> <<>>]
NullGeometry ==
    [features |-> <<[geometry |-> [null |-> TRUE, coordinates |-> <<>>]]>>]
TwoVertices(p, q) ==
    [features |-> <<[geometry |-> [null |-> FALSE, coordinates |-> <<p, q>>]]>>]

InitSlice ==
    /\ \E a \in GridPix, c \in GridOrigins, e \in GridPix, f \in GridOrigins,
          w \in Dims, h \in Dims :
         tp = TransformParams(Affine(a, c, -e, f), IntVal(w), IntVal(h),
                              "EPSG:4326", BandList(1))
    /\ bbox = [obj |-> NoBbox, err |-> ""]
    /\ rowcol = NoRowCol
    /\ arr_slice = NoSlice
    /\ glob = NoGlob
    /\ align = NoAlign
    /\ params = NoParams
    /\ tile = NoTile
    /\ cubed = NoCube

\* Bbox(left, bottom, right, top)
NewBbox ==
    /\ ~bbox.obj.made /\ bbox.err = ""
    /\ \E l \in XCoords, b \in YCoords, r \in XCoords, t \in YCoords :
         bbox' = [obj |-> Bbox(l, b, r, t, "EPSG:4326"), err |-> ""]
    /\ UNCHANGED <<tp, rowcol, arr_slice, glob, align, params, tile, cubed>>

\* create_Bbox(geojson_path)
CreateBbox ==
    /\ ~bbox.obj.made /\ bbox.err = ""
    /\ \E g \in {NoFeatures, NullGeometry}
              \cup {TwoVertices(p, q) : p, q \in XCoords \X YCoords} :
         LET r == create_Bbox(g, "EPSG:4326")
         IN  bbox' = [obj |-> r.ret, err |-> r.err]
    /\ UNCHANGED <<tp, rowcol, arr_slice, glob, align, params, tile, cubed>>

\* tp.slice(bbox.upper_left, bbox.lower_right)
Slice ==
    /\ bbox.obj.made
    /\ ~arr_slice.called
    /\ arr_slice' = [called |-> TRUE,
                     ret |-> slice(tp, bbox.obj.upper_left,
                                   bbox.obj.lower_right)]
    /\ UNCHANGED <<tp, bbox, rowcol, glob, align, params, tile, cubed>>

NextSlice == NewBbox \/ CreateBbox \/ Slice

SpecSlice == InitSlice /\ [][NextSlice]_vars

\* the bounding box lies fully inside the grid's geographic extent
InsideExtent ==
    /\ bbox.obj.made
    /\ gtC <= bbox.obj.left /\ bbox.obj.left <= bbox.obj.right
    /\ bbox.obj.right <= gtC + tp.width.v * gtA
    /\ gtF + tp.height.v * gtE <= bbox.obj.bottom
    /\ bbox.obj.bottom <= bbox.obj.top /\ bbox.obj.top <= gtF

\* C3 as stated: slicing by a bounding box fully inside the extent gives two
\* (row, col) pairs with 0 <= row < height and 0 <= col < width.
C3_SliceBelowDimensions ==
    (arr_slice.called /\ InsideExtent) =>
        \A i \in 1..2 :
            /\ 0 <= arr_slice.ret[i][1] /\ arr_slice.ret[i][1] < tp.height.v
            /\ 0 <= arr_slice.ret[i][2] /\ arr_slice.ret[i][2] < tp.width.v

\* C3 amended: slicing by a bounding box fully inside the extent gives two
\* (row, col) pairs with 0 <= row <= height and 0 <= col <= width, where
\* row = height only for a corner on the extent's bottom edge and
\* col = width only for a corner on its right edge.
C3_SliceWithinDimensions ==
    (arr_slice.called /\ InsideExtent) =>
        LET ys == <<bbox.obj.top, bbox.obj.bottom>>
            xs == <<bbox.obj.left, bbox.obj.right>>
        IN  \A i \in 1..2 :
              /\ 0 <= arr_slice.ret[i][1] /\ arr_slice.ret[i][1] <= tp.height.v
              /\ 0 <= arr_slice.ret[i][2] /\ arr_slice.ret[i][2] <= tp.width.v
              /\ arr_slice.ret[i][1] = tp.height.v
                    => ys[i] = gtF + tp.height.v * gtE
              /\ arr_slice.ret[i][2] = tp.width.v
                    => xs[i] = gtC + tp.width.v * gtA

\* C3's case: a box inside the extent of a grid of more than one pixel that
\* touches the extent's right and bottom edges and not its left and top ones
C3_Witness ==
    /\ arr_slice.called /\ InsideExtent
    /\ arr_slice.ret[2] = <<tp.height.v, tp.width.v>>
    /\ 0 < arr_slice.ret[1][1] /\ arr_slice.ret[1][1] < arr_slice.ret[2][1]
    /\ 0 < arr_slice.ret[1][2] /\ arr_slice.ret[1][2] < arr_slice.ret[2][2]

\* the corner points agree with the coordinates
CornersConsistent ==
    /\ bbox.obj.upper_left = <<bbox.obj.top, bbox.obj.left>>
    /\ bbox.obj.lower_right = <<bbox.obj.bottom, bbox.obj.right>>

----------------------------------------------------------------------------
(* SpecGlob: a DateGlob is constructed from any template.                  *)

\* the characters of a template: the tokens' characters, a letter that
\* makes an unrecognized token (%q) and a separator
Chars == {"%", "Y", "m", "d", "j", "q", "-"}

\* the templates of n characters
StringsOfLen(n) == [1..n -> Chars]

InitGlob ==
    /\ tp = NoTp
    /\ bbox = [obj |-> NoBbox, err |-> ""]
    /\ rowcol = NoRowCol
    /\ arr_slice = NoSlice
    /\ glob = NoGlob
    /\ align = NoAlign
    /\ params = NoParams
    /\ tile = NoTile
    /\ cubed = NoCube

\* DateGlob(datestr)
NewDateGlob ==
    /\ ~glob.made
    /\ \E n \in 0..MaxLen : \E datestr \in StringsOfLen(n) :
         glob' = DateGlob(datestr)
    /\ UNCHANGED <<tp, bbox, rowcol, arr_slice, align, params, tile, cubed>>

NextGlob == NewDateGlob

SpecGlob == InitGlob /\ [][NextGlob]_vars

\* the number of digits of a recognized token's letter, 0 for another
TokenWidth(c) ==
    CASE c = "Y" -> 4
      [] c = "m" -> 2
      [] c = "d" -> 2
      [] c = "j" -> 3
      [] OTHER -> 0

\* the template read once, left to right: a recognized token gives its
\* digit classes, any other character itself
RECURSIVE Expand(_)
Expand(s) ==
    IF Len(s) = 0 THEN <<>>
    ELSE IF Len(s) >= 2 /\ s[1] = "%" /\ TokenWidth(s[2]) > 0
         THEN Repeat(DigitClass, TokenWidth(s[2]))
                  \o Expand(SubSeq(s, 3, Len(s)))
         ELSE <<s[1]>> \o Expand(Tail(s))

\* C5: for every template, DateGlob(template).pattern is the template with
\* each %Y replaced by four digit classes, each %m and %d by two and each
\* %j by three, every other character, unrecognized tokens included, left
\* unchanged and in place.
C5_PatternIsTokensExpanded ==
    glob.made => glob.pattern = Expand(glob.datestr)

\* C5's case: a template with a day-of-year token, an unrecognized token
\* and a literal
C5_Witness ==
    /\ glob.made
    /\ glob.datestr = <<"%", "q", "-", "%", "j">>
    /\ glob.pattern = <<"%", "q", "-">> \o Repeat(DigitClass, 3)

----------------------------------------------------------------------------
(* SpecAlign: align_src under a TransformParams whose width and height are *)
(* any of None, a negative int, 0 and a positive int.                      *)

Bands == 1..MaxBands
AlignDims == {NoneVal} \cup {IntVal(n) : n \in -1..MaxDim}

InitAlign ==
    /\ \E w \in AlignDims, h \in AlignDims, count \in Bands :
         tp = TransformParams(Affine(1, 0, -1, 0), w, h, "EPSG:4326",
                              BandList(count))
    /\ bbox = [obj |-> NoBbox, err |-> ""]
    /\ rowcol = NoRowCol
    /\ arr_slice = NoSlice
    /\ glob = NoGlob
    /\ align = [NoAlign EXCEPT !.pc = "start"]
    /\ params = NoParams
    /\ tile = NoTile
    /\ cubed = NoCube

\* align_src(src, tp)
AlignSrc ==
    /\ align.pc = "start"
    /\ \E reproject_ok \in BOOLEAN : align' = align_src(reproject_ok, tp)
    /\ UNCHANGED <<tp, bbox, rowcol, arr_slice, glob, params, tile, cubed>>

NextAlign == AlignSrc

SpecAlign == InitAlign /\ [][NextAlign]_vars

\* a dimension that is unset or not positive
BadDim(x) == x.t # "int" \/ x.v <= 0

\* C6: align_src fails, before it allocates the destination buffer or
\* invokes reprojection, whenever width or height is None, 0 or negative;
\* it returns an array only when both are positive integers.
C6_AlignRejectsBadDims ==
    /\ (align.pc \in {"returned", "raised"}
          /\ (BadDim(tp.width) \/ BadDim(tp.height)))
            => (align.pc = "raised" /\ align.events = <<>>)
    /\ align.pc = "returned" => (~BadDim(tp.width) /\ ~BadDim(tp.height))

----------------------------------------------------------------------------
(* SpecParams: create_TransformParams, in both variants, on whatever       *)
(* width and height calculate_default_transform returns.                   *)

Counts == 0..MaxBands
ComputedDims ==
    {NoneVal, FloatVal(2 * MaxDim - 1), FloatVal(2 * MaxDim)}
        \cup {IntVal(n) : n \in -1..MaxDim}

InitParams ==
    /\ tp = NoTp
    /\ bbox = [obj |-> NoBbox, err |-> ""]
    /\ rowcol = NoRowCol
    /\ arr_slice = NoSlice
    /\ glob = NoGlob
    /\ align = NoAlign
    /\ params = [NoParams EXCEPT !.pc = "start"]
    /\ tile = NoTile
    /\ cubed = NoCube

\* transform.py: create_TransformParams(src, "EPSG:4326")
CreateTransformParams ==
    /\ params.pc = "start"
    /\ \E w \in ComputedDims, h \in ComputedDims, count \in Counts :
         LET r == create_TransformParams([count |-> count], "EPSG:4326",
                                         <<Affine(1, 0, -1, 0), w, h>>)
         IN  /\ params' = [pc |-> r.pc, variant |-> "transform.py",
                           err |-> r.err, trans |-> <<w, h>>,
                           count |-> count]
             /\ tp' = r.ret
    /\ UNCHANGED <<bbox, rowcol, arr_slice, glob, align, tile, cubed>>

\* cuber.py: create_TransformParams(src, "EPSG:4326")
CuberCreateTransformParams ==
    /\ params.pc = "start"
    /\ \E w \in ComputedDims, h \in ComputedDims, count \in Counts :
         LET r == cuber_create_TransformParams([count |-> count], "EPSG:4326",
                                               <<Affine(1, 0, -1, 0), w, h>>)
         IN  /\ params' = [pc |-> r.pc, variant |-> "cuber.py",
                           err |-> r.err, trans |-> <<w, h>>,
                           count |-> count]
             /\ tp' = r.ret
    /\ UNCHANGED <<bbox, rowcol, arr_slice, glob, align, tile, cubed>>

NextParams == CreateTransformParams \/ CuberCreateTransformParams

SpecParams == InitParams /\ [][NextParams]_vars

\* C7: create_TransformParams (transform.py) fails whenever the computed
\* width or height is not a strictly positive integer (null, fractional,
\* zero or negative); every TransformParams it returns has integer
\* width > 0 and height > 0 and bands = [1, ..., src.count].
C7_ParamsRejectNonPositive ==
    params.variant = "transform.py" =>
        /\ (BadDim(params.trans[1]) \/ BadDim(params.trans[2]))
              => params.pc = "raised"
        /\ params.pc = "returned" =>
              /\ ~BadDim(tp.width) /\ ~BadDim(tp.height)
              /\ tp.bands = [i \in 1..params.count |-> i]

----------------------------------------------------------------------------
(* SpecTile: create_TileCube for a cube of NumSrcs source rasters, on a    *)
(* grid of square pixels and any bounding box, with any number of bands    *)
(* and of date labels.                                                     *)

\* the date labels: d dates, here numbered
DateList(d) == [i \in 1..d |-> i]
DateCounts == 0..(NumSrcs + 1)

\* what the array store may do in a call that reaches it; a call that does
\* not reach it learns nothing of it
StoreFaults(parent_exists, create, overwrite) ==
    IF parent_exists /\ create /\ ~overwrite
    THEN {"", "empty_like", "open"}
    ELSE {""}

InitTile ==
    /\ \E a \in GridPix, c \in GridOrigins :
         tp = TransformParams(Affine(a, c, -a, c), IntVal(MaxDim),
                              IntVal(MaxDim), "EPSG:4326", BandList(1))
    /\ \E l \in XCoords, b \in YCoords, r \in XCoords, t \in YCoords :
         bbox = [obj |-> Bbox(l, b, r, t, "EPSG:4326"), err |-> ""]
    /\ rowcol = NoRowCol
    /\ arr_slice = NoSlice
    /\ glob = NoGlob
    /\ align = NoAlign
    /\ params = NoParams
    /\ tile = [NoTile EXCEPT !.pc = "start", !.srcs = NumSrcs]
    /\ cubed = NoCube

\* create_TileCube(uri, attr, bands, dates, bbox, tp, create=...,
\* overwrite=...)
CreateTileCube ==
    /\ tile.pc = "start"
    /\ \E parent_exists \in BOOLEAN, count \in Bands, d \in DateCounts,
          create \in BOOLEAN, overwrite \in BOOLEAN :
       \E store_fault \in StoreFaults(parent_exists, create, overwrite) :
         LET r == create_TileCube(parent_exists, "attr", BandList(count),
                                  DateList(d), bbox.obj, tp, create,
                                  overwrite, store_fault)
         IN  tile' = [pc |-> r.pc, err |-> r.err, events |-> r.events,
                      store |-> r.store, ret |-> r.ret, srcs |-> tile.srcs,
                      bands |-> BandList(count), dates |-> DateList(d),
                      create |-> create, overwrite |-> overwrite]
    /\ UNCHANGED <<tp, bbox, rowcol, arr_slice, glob, align, params, cubed>>

NextTile == CreateTileCube

SpecTile == InitTile /\ [][NextTile]_vars

\* the call of create_TileCube has ended
TileDone == tile.pc \in {"returned", "raised"}

\* [(row0, col0), (row1, col1)] of the box on the grid
BoxSlice == slice(tp, bbox.obj.upper_left, bbox.obj.lower_right)

\* (len(bands), |row0 - row1|, |col0 - col1|, len(dates))
ExpectedShape ==
    <<Len(tile.bands), Abs(BoxSlice[1][1] - BoxSlice[2][1]),
      Abs(BoxSlice[1][2] - BoxSlice[2][2]), Len(tile.dates)>>

\* the place of event e in the call's events, 0 when it is not among them
Place(e) ==
    IF \E i \in 1..Len(tile.events) : tile.events[i] = e
    THEN CHOOSE i \in 1..Len(tile.events) : tile.events[i] = e
    ELSE 0

\* C8: the TileCube create_TileCube returns has shape (len(bands),
\* |row0 - row1|, |col0 - col1|, len(dates)) for the slice of the box on the
\* grid; the shape is computed before storage is allocated and is exactly
\* the shape passed to each allocation.
C8_ShapeFromSlice ==
    /\ tile.pc = "returned" => shape(tile.ret) = ExpectedShape
    /\ TileDone =>
          /\ \A i \in 1..Len(tile.store.arrays) :
                tile.store.arrays[i] = ExpectedShape
          /\ Place("empty_like") > 0 =>
                (0 < Place("shape") /\ Place("shape") < Place("empty_like"))
    /\ (tile.pc = "returned" /\ tile.create) =>
          tile.store.arrays = <<shape(tile.ret)>>

\* C8's case: a cube created in storage for a wrap-around box (col0 > col1)
\* whose height and width differ and are not 0
C8_Witness ==
    /\ tile.pc = "returned" /\ tile.create
    /\ BoxSlice[1][2] > BoxSlice[2][2]
    /\ tile.ret.height > 0
    /\ tile.ret.width > tile.ret.height
    /\ Len(tile.bands) > 1
    /\ tile.store.arrays = <<ExpectedShape>>

\* C9: a cube whose number of date labels differs from its number of
\* sources is rejected with an error, with no Cube and no storage
\* allocation; a Cube is produced only when the time dimension of its
\* shape equals the number of sources.
C9_MismatchedDatesRejected ==
    /\ (TileDone /\ Len(tile.dates) # tile.srcs) =>
          (tile.pc = "raised" /\ tile.store.arrays = <<>>)
    /\ tile.pc = "returned" => shape(tile.ret)[4] = tile.srcs

\* the events of a call that creates the cube in storage, in order
CreateOrder ==
    <<"parent_exists", "shape", "empty_like", "meta.crs", "meta.upper_left",
      "meta.lower_right">>

\* C10: in a call of create_TileCube with create=true the parent check
\* passes, then the shape is computed, then storage is allocated once, then
\* crs, upper_left and lower_right are each written once; no key is
\* written before allocation or a second time; with overwrite the call
\* fails before any allocation or metadata write.
C10_CreateOrder ==
    (TileDone /\ tile.create) =>
        /\ Len(tile.events) <= Len(CreateOrder)
        /\ tile.events = SubSeq(CreateOrder, 1, Len(tile.events))
        /\ tile.pc = "returned" =>
              /\ tile.events = CreateOrder
              /\ Len(tile.store.arrays) = 1
              /\ Len(tile.store.meta) = 3
              /\ \A k \in {"crs", "upper_left", "lower_right"} :
                    Cardinality({i \in 1..3 : tile.store.meta[i].key = k}) = 1
        /\ tile.overwrite =>
              /\ tile.pc = "raised"
              /\ tile.store = EmptyStore
              /\ Len(tile.events) <= 2

\* C10's case: a call with create=true that returned, its storage allocated
\* and its three keys written
C10_Witness ==
    /\ tile.pc = "returned" /\ tile.create /\ ~tile.overwrite
    /\ tile.events = CreateOrder
    /\ tile.store.meta[1].val = tp.crs
    /\ tile.store.meta[2].val = bbox.obj.upper_left
    /\ tile.store.meta[3].val = bbox.obj.lower_right

----------------------------------------------------------------------------
(* SpecCube: cube() of NumSrcs source rasters of one band count, on a grid *)
(* of square pixels, of any width and height, and any bounding box.        *)

\* the sources: count bands each, reprojection failing on source fail_at
\* (on none when fail_at = 0)
Sources(count, fail_at) ==
    [i \in 1..NumSrcs |-> [count |-> count, reproject_ok |-> i # fail_at]]

InitCube ==
    /\ tp = NoTp
    /\ \E l \in XCoords, b \in YCoords, r \in XCoords, t \in YCoords :
         bbox = [obj |-> Bbox(l, b, r, t, "EPSG:4326"), err |-> ""]
    /\ rowcol = NoRowCol
    /\ arr_slice = NoSlice
    /\ glob = NoGlob
    /\ align = NoAlign
    /\ params = NoParams
    /\ tile = NoTile
    /\ cubed = [NoCube EXCEPT !.pc = "start"]

\* cube(srcs, "EPSG:4326", bbox)
Cube ==
    /\ cubed.pc = "start"
    /\ \E a \in GridPix, c \in GridOrigins, w \in Dims, h \in Dims,
          count \in Bands, fail_at \in 0..NumSrcs :
         LET r == cube(Sources(count, fail_at), "EPSG:4326", bbox.obj,
                       <<Affine(a, c, -a, c), IntVal(w), IntVal(h)>>)
         IN  /\ cubed' = r
             /\ tp' = r.trans
    /\ UNCHANGED <<bbox, rowcol, arr_slice, glob, align, params, tile>>

NextCube == Cube

SpecCube == InitCube /\ [][NextCube]_vars

\* the TileCube create_TileCube declares for the grid and the box of the
\* call of cube, with the sources' bands and one date for each source
DeclaredCube ==
    create_TileCube(TRUE, "attr", cubed.trans.bands, DateList(NumSrcs),
                    bbox.obj, cubed.trans, FALSE, FALSE, "").ret

\* C11: for the same TransformParams and bbox, every slab cube() produces
\* by cropping an aligned array with [:, row0:row1, col0:col1] has the shape
\* (len(bands), |row0 - row1|, |col0 - col1|), the (band-count, height,
\* width) create_TileCube declares for the cube's time-slices, for every
\* bbox, those with row0 > row1 or col0 > col1 or indices beyond the grid's
\* height or width included.
C11_SlabShapeIsDeclaredShape ==
    cubed.pc \in {"returned", "raised"} =>
        \A i \in 1..Len(cubed.outputs) :
            /\ cubed.outputs[i] =
                  <<Len(cubed.trans.bands),
                    Abs(cubed.arr_slice[1][1] - cubed.arr_slice[2][1]),
                    Abs(cubed.arr_slice[1][2] - cubed.arr_slice[2][2])>>
            /\ cubed.outputs[i] = SubSeq(shape(DeclaredCube), 1, 3)

====
